---------------------------- MODULE Spec2Model ----------------------------
(***************************************************************************)
(* africanus.rime.predict: the Jones-term composition engine predict_vis.  *)
(*                                                                         *)
(* predict_vis is a numba generated function.  It first runs on the TYPES  *)
(* of its arguments (presence, ndim, dtype): it validates them and builds  *)
(* the specialised closure _predict_vis_fn.  The closure then runs on the  *)
(* argument VALUES: allocate, sum coherencies, add base visibilities,      *)
(* apply the direction independent effects, return.                        *)
(*                                                                         *)
(* Complex numbers are Gaussian integers <<re, im>>, so arithmetic is      *)
(* exact; floating point rounding is not modelled.                         *)
(* Index arrays hold 0-based values as in the code; the tensors are        *)
(* 1-based sequences, so a code index i reads position i + 1.              *)
(***************************************************************************)
EXTENDS Integers, Sequences, FiniteSets, TLC

VARIABLES
    sig,     \* the argument types predict_vis is specialised on
    pc,      \* position of the call
    err,     \* the error raised, "none" while there is none
    impl,    \* what the closure _predict_vis_fn captured
    call,    \* the argument values of the call
    tmin,    \* _predict_vis_fn's local tmin
    out,     \* _predict_vis_fn's local out: [alloc |-> FALSE] before allocation
    ret,     \* the value returned to the caller
    log,     \* history: the steps run so far, each with out as it left it
    work     \* kernel invocations made in the current step, per (row, chan)

vars == <<sig, pc, err, impl, call, tmin, out, ret, log, work>>

---------------------------------------------------------------------------
(* Bounds of the model *)

NS == 2         \* extent of the source axis
NR == 2         \* number of rows
NC == 1         \* number of channels
NCorr == 2      \* extent of the correlation axis of the (1,)/(2,) layout
MaxShift == 1   \* largest constant added to time_index

Seeds == 0 .. 1      \* the data sets the tensors are drawn from

Times == 0 .. 1      \* time slots of the time/antenna indexed tensors
Ants == 0 .. 1       \* antennas

NT == Cardinality(Times)
NA == Cardinality(Ants)

---------------------------------------------------------------------------
(* Program constants *)

JONES_NOT_PRESENT == 0
JONES_1_OR_2 == 1
JONES_2X2 == 2

\* get_jones_types raising ValueError("%s.ndim not in (%d, %d)")
JONES_RAISES == 3

TensorNames ==
    {"dde1_jones", "source_coh", "dde2_jones",
     "die1_jones", "base_vis", "die2_jones"}

\* element types, by their size in bits: complex64 and complex128
DTypes == {64, 128}

\* (ndim of the (1,)/(2,) layout, ndim of the (2,2) layout) of each argument
Corr1Dims(name) ==
    CASE name \in {"dde1_jones", "dde2_jones"} -> 5
      [] name \in {"source_coh", "die1_jones", "die2_jones"} -> 4
      [] name = "base_vis" -> 3

Corr2Dims(name) == Corr1Dims(name) + 1

---------------------------------------------------------------------------
(* Complex arithmetic *)

CZero == <<0, 0>>
COne == <<1, 0>>
CAdd(x, y) == <<x[1] + y[1], x[2] + y[2]>>
CMul(x, y) == <<x[1] * y[1] - x[2] * y[2], x[1] * y[2] + x[2] * y[1]>>
\* np.conj
CConj(x) == <<x[1], 0 - x[2]>>

---------------------------------------------------------------------------
(* Validation: predict_vis on the argument types *)

NoneType == [present |-> FALSE, ndim |-> 0, dtype |-> 0]

is_numba_type_none(t) == ~t.present

get_jones_types(numba_ndarray_type, corr_1_dims, corr_2_dims) ==
    IF is_numba_type_none(numba_ndarray_type) THEN JONES_NOT_PRESENT
    ELSE IF numba_ndarray_type.ndim = corr_1_dims THEN JONES_1_OR_2
    ELSE IF numba_ndarray_type.ndim = corr_2_dims THEN JONES_2X2
    ELSE JONES_RAISES

\* np.result_type over the element types given: the widest of them
result_type(dtypes) ==
    CHOOSE d \in dtypes : \A e \in dtypes : e <= d

\* the element types of the arguments that are present (lines 346-351)
PresentDTypes(s) ==
    {s[n].dtype : n \in {m \in TensorNames : ~is_numba_type_none(s[m])}}

JonesTypes(s) ==
    << get_jones_types(s["dde1_jones"], 5, 6),
       get_jones_types(s["source_coh"], 4, 5),
       get_jones_types(s["dde2_jones"], 5, 6),
       get_jones_types(s["die1_jones"], 4, 5),
       get_jones_types(s["die2_jones"], 4, 5) >>

PTypes(s) == SelectSeq(JonesTypes(s), LAMBDA t : t # JONES_NOT_PRESENT)

have_a1(s) == ~is_numba_type_none(s["dde1_jones"])
have_bl(s) == ~is_numba_type_none(s["source_coh"])
have_a2(s) == ~is_numba_type_none(s["dde2_jones"])
have_g1(s) == ~is_numba_type_none(s["die1_jones"])
have_coh(s) == ~is_numba_type_none(s["base_vis"])
have_g2(s) == ~is_numba_type_none(s["die2_jones"])
have_ants(s) == have_a1(s) /\ have_a2(s)
have_dies(s) == have_g1(s) /\ have_g2(s)

RankBad(s, name) ==
    /\ ~is_numba_type_none(s[name])
    /\ s[name].ndim \notin {Corr1Dims(name), Corr2Dims(name)}

\* a mutant of ValidationError: the ranks are checked before the pairing
ValidationError_RankFirst(s) ==
    IF \E n \in TensorNames \ {"base_vis"} : RankBad(s, n) THEN "rank"
    ELSE IF have_a1(s) # have_a2(s) THEN "pairing_dde"
    ELSE IF have_g1(s) # have_g2(s) THEN "pairing_die"
    ELSE IF PresentDTypes(s) = {} THEN "dtype"
    ELSE IF \E i \in 2 .. Len(PTypes(s)) : PTypes(s)[1] # PTypes(s)[i]
         THEN "mismatch"
    ELSE IF PTypes(s) = <<>> THEN "noterms"
    ELSE "none"

\* The error predict_vis raises on the types s, in the order of its checks;
\* "none" when it returns the closure.
ValidationError(s) ==
    IF have_a1(s) # have_a2(s) THEN "pairing_dde"
    ELSE IF have_g1(s) # have_g2(s) THEN "pairing_die"
    \* np.result_type() of no element type at all: numpy's
    \* ValueError("at least one array or dtype is required")
    ELSE IF PresentDTypes(s) = {} THEN "dtype"
    ELSE IF RankBad(s, "dde1_jones") THEN "rank"
    ELSE IF RankBad(s, "dde2_jones") THEN "rank"
    ELSE IF RankBad(s, "source_coh") THEN "rank"
    ELSE IF RankBad(s, "die1_jones") THEN "rank"
    ELSE IF RankBad(s, "die2_jones") THEN "rank"
    ELSE IF \E i \in 1 .. 5 : JonesTypes(s)[i] = JONES_RAISES THEN "rank"
    ELSE IF \E i \in 2 .. Len(PTypes(s)) : PTypes(s)[1] # PTypes(s)[i]
         THEN "mismatch"
    ELSE IF PTypes(s) = <<>> THEN "noterms"
    \* output_factory
    ELSE IF ~(have_ants(s) \/ have_bl(s) \/ have_dies(s)) THEN "insufficient"
    \* jones_mul_factory
    ELSE IF PTypes(s)[1] \notin {JONES_1_OR_2, JONES_2X2} THEN "invalid_type"
    ELSE "none"

\* What the closure captures (lines 353-354, 390, 395-398)
Specialise(s) ==
    [ have_ants |-> have_ants(s),
      have_bl |-> have_bl(s),
      have_dies |-> have_dies(s),
      have_coh |-> have_coh(s),
      jones_type |-> PTypes(s)[1],
      out_dtype |-> result_type(PresentDTypes(s)) ]

NoImpl ==
    [ have_ants |-> FALSE, have_bl |-> FALSE, have_dies |-> FALSE,
      have_coh |-> FALSE, jones_type |-> JONES_NOT_PRESENT, out_dtype |-> 0 ]

---------------------------------------------------------------------------
(* Argument values *)

\* numpy indexing: a negative index counts from the end
At(x, i) == x[(IF i < 0 THEN i + Len(x) ELSE i) + 1]

IsMatrix(s, name) == s[name].ndim = Corr2Dims(name)

\* the nine Gaussian integers with parts in -1 .. 1
Val(n) == << (n % 3) - 1, ((n \div 3) % 3) - 1 >>

TensorId(name) ==
    CASE name = "dde1_jones" -> 1 [] name = "source_coh" -> 2
      [] name = "dde2_jones" -> 3 [] name = "die1_jones" -> 4
      [] name = "base_vis" -> 5 [] name = "die2_jones" -> 6

Mix(h, x) == ((h + 3) * (x + 5) * 7 + x) % 97

\* the element of data set `seed` at position (p, q, u, v, i, j) of tensor k
Datum(k, seed, p, q, u, v, i, j) ==
    Val(Mix(Mix(Mix(Mix(Mix(Mix(Mix(k, seed), p), q), u), v), i), j) % 9)

\* the correlations at one (p, q, u, v): a vector of NCorr values, or 2x2
Cell(matrix, k, seed, p, q, u, v) ==
    IF matrix
    THEN [i \in 1 .. 2 |-> [j \in 1 .. 2 |-> Datum(k, seed, p, q, u, v, i, j)]]
    ELSE [i \in 1 .. NCorr |-> Datum(k, seed, p, q, u, v, i, 0)]

\* (source, time, ant, chan, corr...)
DdeTensor(matrix, k, seed) ==
    [s \in 1 .. NS |-> [t \in 1 .. NT |-> [a \in 1 .. NA |-> [c \in 1 .. NC |->
        Cell(matrix, k, seed, s, t, a, c)]]]]

\* (source, row, chan, corr...)
CohTensor(matrix, k, seed) ==
    [s \in 1 .. NS |-> [r \in 1 .. NR |-> [c \in 1 .. NC |->
        Cell(matrix, k, seed, s, r, 0, c)]]]

\* (time, ant, chan, corr...)
DieTensor(matrix, k, seed) ==
    [t \in 1 .. NT |-> [a \in 1 .. NA |-> [c \in 1 .. NC |->
        Cell(matrix, k, seed, 0, t, a, c)]]]

\* (row, chan, corr...)
VisTensor(matrix, k, seed) ==
    [r \in 1 .. NR |-> [c \in 1 .. NC |-> Cell(matrix, k, seed, 0, r, 0, c)]]

\* tensor `name` of data set `seed` in the given layout
TensorOf(name, matrix, seed) ==
    CASE name \in {"dde1_jones", "dde2_jones"} ->
            DdeTensor(matrix, TensorId(name), seed)
      [] name = "source_coh" -> CohTensor(matrix, TensorId(name), seed)
      [] name \in {"die1_jones", "die2_jones"} ->
            DieTensor(matrix, TensorId(name), seed)
      [] name = "base_vis" -> VisTensor(matrix, TensorId(name), seed)

\* the data sets, tabulated
DataSets ==
    [name \in TensorNames |-> [matrix \in BOOLEAN |-> [seed \in Seeds |->
        TensorOf(name, matrix, seed)]]]

MkTensor(s, name, seed) ==
    IF is_numba_type_none(s[name]) THEN <<>>
    ELSE DataSets[name][IsMatrix(s, name)][seed]

\* row -> time slot, non-decreasing ("the row dimension must be an
\* increasing partial order in time")
TimeIndexChoices ==
    {ti \in [1 .. NR -> Times] : \A r \in 1 .. NR - 1 : ti[r] <= ti[r + 1]}

AntennaChoices == [1 .. NR -> Ants]

MkCall(s, seed, ti, a1, a2) ==
    [ time_index |-> ti, antenna1 |-> a1, antenna2 |-> a2,
      dde1_jones |-> MkTensor(s, "dde1_jones", seed),
      source_coh |-> MkTensor(s, "source_coh", seed),
      dde2_jones |-> MkTensor(s, "dde2_jones", seed),
      die1_jones |-> MkTensor(s, "die1_jones", seed),
      base_vis |-> MkTensor(s, "base_vis", seed),
      die2_jones |-> MkTensor(s, "die2_jones", seed) ]

NoCall ==
    [ time_index |-> <<>>, antenna1 |-> <<>>, antenna2 |-> <<>>,
      dde1_jones |-> <<>>, source_coh |-> <<>>, dde2_jones |-> <<>>,
      die1_jones |-> <<>>, base_vis |-> <<>>, die2_jones |-> <<>> ]

---------------------------------------------------------------------------
(* jones_mul_factory: the multiply kernels, on one (row, chan) cell *)

\* have_bl and have_ants, JONES_1_OR_2
jones_mul_3_scalar(accumulate, a1j, blj, a2j, o) ==
    [c \in 1 .. Len(o) |->
        IF accumulate
        THEN CAdd(o[c], CMul(CMul(a1j[c], blj[c]), CConj(a2j[c])))
        ELSE CMul(CMul(a1j[c], blj[c]), CConj(a2j[c]))]

\* a mutant of jones_mul_3_matrix: the product is taken as bl . a1 . conj(a2)
jones_mul_3_matrix_swapped(accumulate, a1j, blj, a2j, o) ==
    LET a2_xx_H == CConj(a2j[1][1])
        a2_xy_H == CConj(a2j[1][2])
        a2_yx_H == CConj(a2j[2][1])
        a2_yy_H == CConj(a2j[2][2])
        xx == CAdd(CMul(a1j[1][1], a2_xx_H), CMul(a1j[1][2], a2_yx_H))
        xy == CAdd(CMul(a1j[1][1], a2_xy_H), CMul(a1j[1][2], a2_yy_H))
        yx == CAdd(CMul(a1j[2][1], a2_xx_H), CMul(a1j[2][2], a2_yx_H))
        yy == CAdd(CMul(a1j[2][1], a2_xy_H), CMul(a1j[2][2], a2_yy_H))
        p  == << << CAdd(CMul(blj[1][1], xx), CMul(blj[1][2], yx)),
                    CAdd(CMul(blj[1][1], xy), CMul(blj[1][2], yy)) >>,
                 << CAdd(CMul(blj[2][1], xx), CMul(blj[2][2], yx)),
                    CAdd(CMul(blj[2][1], xy), CMul(blj[2][2], yy)) >> >>
    IN  IF accumulate
        THEN [i \in 1 .. 2 |-> [j \in 1 .. 2 |-> CAdd(o[i][j], p[i][j])]]
        ELSE p

\* have_bl and have_ants, JONES_2X2
jones_mul_3_matrix(accumulate, a1j, blj, a2j, o) ==
    LET a2_xx_H == CConj(a2j[1][1])
        a2_xy_H == CConj(a2j[1][2])
        a2_yx_H == CConj(a2j[2][1])
        a2_yy_H == CConj(a2j[2][2])
        xx == CAdd(CMul(blj[1][1], a2_xx_H), CMul(blj[1][2], a2_yx_H))
        xy == CAdd(CMul(blj[1][1], a2_xy_H), CMul(blj[1][2], a2_yy_H))
        yx == CAdd(CMul(blj[2][1], a2_xx_H), CMul(blj[2][2], a2_yx_H))
        yy == CAdd(CMul(blj[2][1], a2_xy_H), CMul(blj[2][2], a2_yy_H))
        p  == << << CAdd(CMul(a1j[1][1], xx), CMul(a1j[1][2], yx)),
                    CAdd(CMul(a1j[1][1], xy), CMul(a1j[1][2], yy)) >>,
                 << CAdd(CMul(a1j[2][1], xx), CMul(a1j[2][2], yx)),
                    CAdd(CMul(a1j[2][1], xy), CMul(a1j[2][2], yy)) >> >>
    IN  IF accumulate
        THEN << << CAdd(o[1][1], p[1][1]), CAdd(o[1][2], p[1][2]) >>,
                << CAdd(o[2][1], p[2][1]), CAdd(o[2][2], p[2][2]) >> >>
        ELSE p

\* have_ants and not have_bl, JONES_1_OR_2
jones_mul_2_scalar(accumulate, a1j, a2j, o) ==
    [c \in 1 .. Len(o) |->
        IF accumulate
        THEN CAdd(o[c], CMul(a1j[c], CConj(a2j[c])))
        ELSE CMul(a1j[c], CConj(a2j[c]))]

\* have_ants and not have_bl, JONES_2X2: both branches of the code
\* accumulate (lines 149-158)
jones_mul_2_matrix(accumulate, a1j, a2j, o) ==
    LET a2_xx_H == CConj(a2j[1][1])
        a2_xy_H == CConj(a2j[1][2])
        a2_yx_H == CConj(a2j[2][1])
        a2_yy_H == CConj(a2j[2][2])
        p  == << << CAdd(CMul(a1j[1][1], a2_xx_H), CMul(a1j[1][2], a2_yx_H)),
                    CAdd(CMul(a1j[1][1], a2_xy_H), CMul(a1j[1][2], a2_yy_H)) >>,
                 << CAdd(CMul(a1j[2][1], a2_xx_H), CMul(a1j[2][2], a2_yx_H)),
                    CAdd(CMul(a1j[2][1], a2_xy_H), CMul(a1j[2][2], a2_yy_H)) >> >>
    IN  IF accumulate
        THEN << << CAdd(o[1][1], p[1][1]), CAdd(o[1][2], p[1][2]) >>,
                << CAdd(o[2][1], p[2][1]), CAdd(o[2][2], p[2][2]) >> >>
        ELSE << << CAdd(o[1][1], p[1][1]), CAdd(o[1][2], p[1][2]) >>,
                << CAdd(o[2][1], p[2][1]), CAdd(o[2][2], p[2][2]) >> >>

\* the kernel jones_mul_factory(TRUE, TRUE, jones_type, accumulate) returns
jones_mul_3(jones_type, accumulate, a1j, blj, a2j, o) ==
    IF jones_type = JONES_1_OR_2
    THEN jones_mul_3_scalar(accumulate, a1j, blj, a2j, o)
    ELSE jones_mul_3_matrix(accumulate, a1j, blj, a2j, o)

\* the kernel jones_mul_factory(TRUE, FALSE, jones_type, accumulate) returns
jones_mul_2(jones_type, accumulate, a1j, a2j, o) ==
    IF jones_type = JONES_1_OR_2
    THEN jones_mul_2_scalar(accumulate, a1j, a2j, o)
    ELSE jones_mul_2_matrix(accumulate, a1j, a2j, o)

\* the loop of the have_bl and have_ants, JONES_1_OR_2 kernel from element c
\* on, when blj and out are one buffer holding m: blj[c] reads the buffer
RECURSIVE jones_mul_3_scalar_inplace_from(_, _, _, _, _)
jones_mul_3_scalar_inplace_from(accumulate, a1j, a2j, m, c) ==
    IF c > Len(m) THEN m
    ELSE LET p == CMul(CMul(a1j[c], m[c]), CConj(a2j[c]))
         IN  jones_mul_3_scalar_inplace_from(accumulate, a1j, a2j,
                 [m EXCEPT ![c] = IF accumulate THEN CAdd(m[c], p) ELSE p],
                 c + 1)

\* have_bl and have_ants, JONES_1_OR_2, blj and out one buffer
jones_mul_3_scalar_inplace(accumulate, a1j, a2j, o) ==
    jones_mul_3_scalar_inplace_from(accumulate, a1j, a2j, o, 1)

\* a mutant of jones_mul_3_matrix_inplace: no temporaries, every store
\* reads blj as the buffer holds it by then
jones_mul_3_matrix_inplace_late(accumulate, a1j, a2j, o) ==
    LET a2_xx_H == CConj(a2j[1][1])
        a2_xy_H == CConj(a2j[1][2])
        a2_yx_H == CConj(a2j[2][1])
        a2_yy_H == CConj(a2j[2][2])
        xx(m) == CAdd(CMul(m[1][1], a2_xx_H), CMul(m[1][2], a2_yx_H))
        xy(m) == CAdd(CMul(m[1][1], a2_xy_H), CMul(m[1][2], a2_yy_H))
        yx(m) == CAdd(CMul(m[2][1], a2_xx_H), CMul(m[2][2], a2_yx_H))
        yy(m) == CAdd(CMul(m[2][1], a2_xy_H), CMul(m[2][2], a2_yy_H))
        St(m, i, j, v) ==
            [m EXCEPT ![i][j] = IF accumulate THEN CAdd(m[i][j], v) ELSE v]
        m1 == St(o, 1, 1, CAdd(CMul(a1j[1][1], xx(o)), CMul(a1j[1][2], yx(o))))
        m2 == St(m1, 1, 2, CAdd(CMul(a1j[1][1], xy(m1)), CMul(a1j[1][2], yy(m1))))
        m3 == St(m2, 2, 1, CAdd(CMul(a1j[2][1], xx(m2)), CMul(a1j[2][2], yx(m2))))
    IN  St(m3, 2, 2, CAdd(CMul(a1j[2][1], xy(m3)), CMul(a1j[2][2], yy(m3))))

\* have_bl and have_ants, JONES_2X2, blj and out one buffer: the statements
\* in order, lines 110-129.  The temporaries read the buffer as it is on
\* entry; the four stores follow, each on the buffer the previous one left.
jones_mul_3_matrix_inplace(accumulate, a1j, a2j, o) ==
    LET a2_xx_H == CConj(a2j[1][1])
        a2_xy_H == CConj(a2j[1][2])
        a2_yx_H == CConj(a2j[2][1])
        a2_yy_H == CConj(a2j[2][2])
        xx == CAdd(CMul(o[1][1], a2_xx_H), CMul(o[1][2], a2_yx_H))
        xy == CAdd(CMul(o[1][1], a2_xy_H), CMul(o[1][2], a2_yy_H))
        yx == CAdd(CMul(o[2][1], a2_xx_H), CMul(o[2][2], a2_yx_H))
        yy == CAdd(CMul(o[2][1], a2_xy_H), CMul(o[2][2], a2_yy_H))
        St(m, i, j, v) ==
            [m EXCEPT ![i][j] = IF accumulate THEN CAdd(m[i][j], v) ELSE v]
        m1 == St(o, 1, 1, CAdd(CMul(a1j[1][1], xx), CMul(a1j[1][2], yx)))
        m2 == St(m1, 1, 2, CAdd(CMul(a1j[1][1], xy), CMul(a1j[1][2], yy)))
        m3 == St(m2, 2, 1, CAdd(CMul(a1j[2][1], xx), CMul(a1j[2][2], yx)))
    IN  St(m3, 2, 2, CAdd(CMul(a1j[2][1], xy), CMul(a1j[2][2], yy)))

\* the three-term kernel called with one buffer as blj and as out
jones_mul_3_inplace(jones_type, accumulate, a1j, a2j, o) ==
    IF jones_type = JONES_1_OR_2
    THEN jones_mul_3_scalar_inplace(accumulate, a1j, a2j, o)
    ELSE jones_mul_3_matrix_inplace(accumulate, a1j, a2j, o)

\* not have_ants and have_bl, JONES_1_OR_2 (lines 162-170) and JONES_2X2
\* (lines 172-185): `same` is id(blj) == id(out)
jones_mul_1(jones_type, accumulate, same, blj, o) ==
    IF accumulate
    THEN IF jones_type = JONES_1_OR_2
         THEN [c \in 1 .. Len(o) |-> CAdd(o[c], blj[c])]
         ELSE << << CAdd(o[1][1], blj[1][1]), CAdd(o[1][2], blj[1][2]) >>,
                 << CAdd(o[2][1], blj[2][1]), CAdd(o[2][2], blj[2][2]) >> >>
    ELSE IF same THEN o
    ELSE IF jones_type = JONES_1_OR_2
         THEN [c \in 1 .. Len(o) |-> blj[c]]
         ELSE << << blj[1][1], blj[1][2] >>, << blj[2][1], blj[2][2] >> >>

\* jones_mul_factory(have_ants, have_bl, jones_type, accumulate), applied:
\* out after the call of the kernel it returns.  `same` says that blj and
\* out are one buffer.
jones_mul_factory(has_ants, has_bl, jones_type, accumulate, same, a1j, blj, a2j, o) ==
    IF has_bl /\ has_ants
    THEN IF same
         THEN jones_mul_3_inplace(jones_type, accumulate, a1j, a2j, o)
         ELSE jones_mul_3(jones_type, accumulate, a1j, blj, a2j, o)
    ELSE IF has_ants
    THEN jones_mul_2(jones_type, accumulate, a1j, a2j, o)
    ELSE IF has_bl
    THEN jones_mul_1(jones_type, accumulate, same, blj, o)
    ELSE o

\* numpy's += on one cell: out[r, f] += blj[s, r, f]
CellAdd(jones_type, o, x) ==
    IF jones_type = JONES_1_OR_2
    THEN [c \in 1 .. Len(o) |-> CAdd(o[c], x[c])]
    ELSE [i \in 1 .. Len(o) |-> [j \in 1 .. Len(o[i]) |-> CAdd(o[i][j], x[i][j])]]

---------------------------------------------------------------------------
(* The steps of _predict_vis_fn, as functions of the argument values *)

\* np.zeros(corrs): the correlations of one (row, chan), shaped like `like`
ZeroCell(jones_type, like) ==
    IF jones_type = JONES_1_OR_2
    THEN [c \in 1 .. Len(like) |-> CZero]
    ELSE [i \in 1 .. Len(like) |-> [j \in 1 .. Len(like[i]) |-> CZero]]

OnesCell(jones_type, like) ==
    IF jones_type = JONES_1_OR_2
    THEN [c \in 1 .. Len(like) |-> COne]
    ELSE [i \in 1 .. Len(like) |-> [j \in 1 .. Len(like[i]) |->
             IF i = j THEN COne ELSE CZero]]

\* a mutant of output: the buffer starts as the identity
output_ones(im, cl) ==
    LET like == IF im.have_ants THEN cl.dde1_jones[1][1][1]
                ELSE IF im.have_bl THEN cl.source_coh[1][1]
                ELSE cl.die1_jones[1][1]
    IN  [r \in 1 .. Len(cl.time_index) |-> [c \in 1 .. Len(like) |->
            OnesCell(im.jones_type, like[1])]]

\* output_factory(have_ants, have_bl, have_dies, out_dtype)(...)
output(im, cl) ==
    LET row == Len(cl.time_index)
    IN  IF im.have_ants
        THEN [r \in 1 .. row |-> [c \in 1 .. Len(cl.dde1_jones[1][1][1]) |->
                 ZeroCell(im.jones_type, cl.dde1_jones[1][1][1][1])]]
        ELSE IF im.have_bl
        THEN [r \in 1 .. row |-> [c \in 1 .. Len(cl.source_coh[1][1]) |->
                 ZeroCell(im.jones_type, cl.source_coh[1][1][1])]]
        ELSE [r \in 1 .. row |-> [c \in 1 .. Len(cl.die1_jones[1][1]) |->
                 ZeroCell(im.jones_type, cl.die1_jones[1][1][1])]]

RECURSIVE SeqMin(_, _)
SeqMin(x, n) ==
    IF n = 1 THEN x[1]
    ELSE LET m == SeqMin(x, n - 1) IN IF x[n] < m THEN x[n] ELSE m

RECURSIVE SeqMax(_, _)
SeqMax(x, n) ==
    IF n = 1 THEN x[1]
    ELSE LET m == SeqMax(x, n - 1) IN IF x[n] > m THEN x[n] ELSE m

\* a mutant of time_min: the largest element
time_max(time_index) == SeqMax(time_index, Len(time_index))

\* time_index.min()
time_min(time_index) == SeqMin(time_index, Len(time_index))

\* a mutant of CohTerm: the kernels overwrite the cell
CohTerm_overwrite(im, cl, tm, s, r, f, o) ==
    LET ti == cl.time_index[r] - tm
        a1 == cl.antenna1[r]
        a2 == cl.antenna2[r]
    IN  IF im.have_ants /\ im.have_bl
        THEN jones_mul_3(im.jones_type, FALSE,
                         At(At(cl.dde1_jones[s], ti), a1)[f],
                         cl.source_coh[s][r][f],
                         At(At(cl.dde2_jones[s], ti), a2)[f],
                         o)
        ELSE IF im.have_ants
        THEN jones_mul_3(im.jones_type, FALSE,
                         At(At(cl.dde1_jones[s], ti), a1)[f],
                         o,
                         At(At(cl.dde2_jones[s], ti), a2)[f],
                         o)
        ELSE IF im.have_bl
        THEN cl.source_coh[s][r][f]
        ELSE o

\* one kernel invocation of sum_coh_fn, for source s, row r, channel f
\* (1-based), accumulating into the cell o = out[r, f]
CohTerm(im, cl, tm, s, r, f, o) ==
    LET ti == cl.time_index[r] - tm
        a1 == cl.antenna1[r]
        a2 == cl.antenna2[r]
    IN  IF im.have_ants /\ im.have_bl
        THEN jones_mul_3(im.jones_type, TRUE,
                         At(At(cl.dde1_jones[s], ti), a1)[f],
                         cl.source_coh[s][r][f],
                         At(At(cl.dde2_jones[s], ti), a2)[f],
                         o)
        ELSE IF im.have_ants
        THEN jones_mul_2(im.jones_type, TRUE,
                         At(At(cl.dde1_jones[s], ti), a1)[f],
                         At(At(cl.dde2_jones[s], ti), a2)[f],
                         o)
        ELSE IF im.have_bl
        THEN CellAdd(im.jones_type, o, cl.source_coh[s][r][f])
        ELSE o

\* the source loop for one (r, f): sources s .. n in order
RECURSIVE SumSources(_, _, _, _, _, _, _, _)
SumSources(im, cl, tm, s, n, r, f, o) ==
    IF s > n THEN o
    ELSE SumSources(im, cl, tm, s + 1, n, r, f, CohTerm(im, cl, tm, s, r, f, o))

\* the extent of the source loop of sum_coh_fn
NSources(im, cl) ==
    IF im.have_ants THEN Len(cl.dde1_jones)
    ELSE IF im.have_bl THEN Len(cl.source_coh) ELSE 0

\* sum_coherencies_factory(have_ants, have_bl, jones_type)(...): out after it
sum_coh_fn(im, cl, tm, o) ==
    LET nsrc == IF im.have_ants THEN Len(cl.dde1_jones)
                ELSE IF im.have_bl THEN Len(cl.source_coh) ELSE 0
        nrow == IF im.have_ants THEN Len(cl.time_index)
                ELSE IF im.have_bl THEN Len(cl.source_coh[1]) ELSE 0
        nchan == IF im.have_ants THEN Len(cl.dde1_jones[1][1][1])
                 ELSE IF im.have_bl THEN Len(cl.source_coh[1][1]) ELSE 0
    IN  [r \in 1 .. Len(o) |-> [f \in 1 .. Len(o[r]) |->
            IF r <= nrow /\ f <= nchan
            THEN SumSources(im, cl, tm, 1, nsrc, r, f, o[r][f])
            ELSE o[r][f]]]

\* the shape of a (row, chan, corr...) array of `nd` dimensions
VisShape(x, nd) ==
    IF nd = 3 THEN << Len(x), Len(x[1]), Len(x[1][1]) >>
    ELSE << Len(x), Len(x[1]), Len(x[1][1]), Len(x[1][1][1]) >>

OutNdim(im) == IF im.jones_type = JONES_1_OR_2 THEN 3 ELSE 4

\* whether numpy can broadcast base_vis (of bnd dimensions) into out
CanBroadcast(im, bnd, base_vis, o) ==
    LET ond == OutNdim(im)
        os == VisShape(o, ond)
        bs == VisShape(base_vis, bnd)
    IN  /\ bnd <= ond
        /\ \A k \in 1 .. bnd : bs[k] = os[k + ond - bnd] \/ bs[k] = 1

\* a mutant of add_coh: base_vis is assigned to out
add_coh_assign(im, bnd, base_vis, o) ==
    IF ~im.have_coh THEN o ELSE base_vis

\* add_coh_factory(have_coh)(base_vis, out): out += base_vis, when numpy
\* can broadcast base_vis into out
add_coh(im, bnd, base_vis, o) ==
    IF ~im.have_coh THEN o
    ELSE IF bnd = OutNdim(im)
    THEN [r \in 1 .. Len(o) |-> [c \in 1 .. Len(o[r]) |->
             CellAdd(im.jones_type, o[r][c],
                     base_vis[IF Len(base_vis) = 1 THEN 1 ELSE r]
                             [IF Len(base_vis[1]) = 1 THEN 1 ELSE c])]]
    \* a (row, chan, corr) array broadcast into a (row, chan, 2, 2) one:
    \* its axes align with (chan, 2, 2)
    ELSE LET bs == VisShape(base_vis, bnd)
         IN  [r \in 1 .. Len(o) |-> [c \in 1 .. Len(o[r]) |->
                 [i \in 1 .. 2 |-> [j \in 1 .. 2 |->
                     CAdd(o[r][c][i][j],
                          base_vis[IF bs[1] = 1 THEN 1 ELSE c]
                                  [IF bs[2] = 1 THEN 1 ELSE i]
                                  [IF bs[3] = 1 THEN 1 ELSE j])]]]]

\* one kernel invocation of apply_dies, for row r, channel c (1-based):
\* out[r, c] is both the middle operand and the destination
DieTerm(im, cl, tm, r, c, o) ==
    LET ti == cl.time_index[r] - tm
        a1 == cl.antenna1[r]
        a2 == cl.antenna2[r]
    IN  jones_mul_factory(im.have_dies, TRUE, im.jones_type, FALSE, TRUE,
                          At(At(cl.die1_jones, ti), a1)[c],
                          o,
                          At(At(cl.die2_jones, ti), a2)[c],
                          o)

\* a mutant of apply_dies: the sandwich is applied to an identity
apply_dies_identity(im, cl, tm, o) ==
    IF im.have_dies
    THEN [r \in 1 .. Len(o) |-> [c \in 1 .. Len(o[r]) |->
             DieTerm(im, cl, tm, r, c, OnesCell(im.jones_type, o[r][c]))]]
    ELSE o

\* apply_dies_factory(have_dies, have_coh, jones_type)(...): out after it
apply_dies(im, cl, tm, o) ==
    IF im.have_dies
    THEN [r \in 1 .. Len(o) |-> [c \in 1 .. Len(o[r]) |->
             IF r <= Len(cl.time_index)
             THEN DieTerm(im, cl, tm, r, c, o[r][c])
             ELSE o[r][c]]]
    ELSE o

\* _predict_vis_fn as a whole, on values whose base_vis can be added
predict_vis_fn(im, bnd, cl) ==
    LET tm == time_min(cl.time_index)
    IN  apply_dies(im, cl, tm,
            add_coh(im, bnd, cl.base_vis,
                sum_coh_fn(im, cl, tm, output(im, cl))))

---------------------------------------------------------------------------
(* The call as a state machine *)

NoOut == [alloc |-> FALSE, dtype |-> 0, data |-> <<>>, obj |-> 0]

\* the arguments of predict_vis; argument i of a call is the object i
ArgNames ==
    <<"time_index", "antenna1", "antenna2", "dde1_jones", "source_coh",
      "dde2_jones", "die1_jones", "base_vis", "die2_jones">>

\* the objects there can be: the arguments and one more
Objects == 1 .. (Len(ArgNames) + 1)

\* the array objects passed to a call of signature s (None is no array)
InputObjects(s) ==
    {i \in 1 .. Len(ArgNames) :
        ArgNames[i] \in TensorNames => s[ArgNames[i]].present}

\* a mutant of np_zeros_object: the storage of a live array is handed out
np_zeros_reuse(live) == CHOOSE o \in live : TRUE

\* np.zeros (lines 243, 250, 257) returns a new array: an object that is
\* none of the live ones
np_zeros_object(live) == CHOOSE o \in Objects \ live : TRUE

\* the (row, chan) iterations of a step
Cells == (1 .. NR) \X (1 .. NC)

\* no kernel invocation made yet
NoWork == [cell \in Cells |-> 0]

\* the ranks an argument can be given: those of the two layouts and, but for
\* base_vis, one dimension less (no correlation axis)
ArgNdims(name) ==
    {Corr1Dims(name), Corr2Dims(name)}
    \cup (IF name = "base_vis" THEN {} ELSE {Corr1Dims(name) - 1})

\* the arguments that may be the complex128 one
WideChoices == {"source_coh", "base_vis", "die2_jones"}

\* the signature in which the arguments `present` are arrays of ranks nd,
\* all complex64 but `wide`, which is complex128
MkSig(present, nd, wide) ==
    [n \in TensorNames |->
        IF n \in present
        THEN [present |-> TRUE, ndim |-> nd[n],
              dtype |-> IF n = wide THEN 128 ELSE 64]
        ELSE NoneType]

Init ==
    /\ \E present \in SUBSET TensorNames :
       \E nd \in [TensorNames -> 3 .. 6] :
       \E wide \in (present \cap WideChoices) \cup {"none"} :
          /\ \A n \in TensorNames :
                nd[n] \in (IF n \in present THEN ArgNdims(n) ELSE {3})
          /\ sig = MkSig(present, nd, wide)
    /\ pc = "validate"
    /\ err = "none"
    /\ impl = NoImpl
    /\ call = NoCall
    /\ tmin = 0
    /\ out = NoOut
    /\ ret = NoOut
    /\ log = <<>>
    /\ work = NoWork

\* a mutant of Validate: the output buffer exists before the checks run
Validate_AllocFirst ==
    /\ pc = "validate"
    /\ err' = ValidationError(sig)
    /\ out' = [alloc |-> TRUE, dtype |-> 0, data |-> <<>>, obj |-> 0]
    /\ IF err' = "none"
       THEN pc' = "call" /\ impl' = Specialise(sig)
       ELSE pc' = "error" /\ impl' = impl
    /\ UNCHANGED <<sig, call, tmin, ret, log, work>>

\* predict_vis, lines 326-398: validate the types and build the closure
Validate ==
    /\ pc = "validate"
    /\ err' = ValidationError(sig)
    /\ IF err' = "none"
       THEN pc' = "call" /\ impl' = Specialise(sig)
       ELSE pc' = "error" /\ impl' = impl
    /\ UNCHANGED <<sig, call, tmin, out, ret, log, work>>

\* the closure is entered with the argument values
Call ==
    /\ pc = "call"
    /\ \E seed \in Seeds, ti \in TimeIndexChoices,
          a1 \in AntennaChoices, a2 \in AntennaChoices :
            call' = MkCall(sig, seed, ti, a1, a2)
    /\ pc' = "alloc"
    /\ UNCHANGED <<sig, err, impl, tmin, out, ret, log, work>>

\* lines 405-410: out = out_fn(...); tmin = time_index.min()
Alloc ==
    /\ pc = "alloc"
    /\ out' = [alloc |-> TRUE, dtype |-> impl.out_dtype,
               data |-> output(impl, call),
               obj |-> np_zeros_object(InputObjects(sig))]
    /\ tmin' = time_min(call.time_index)
    /\ log' = Append(log, [step |-> "alloc", out |-> out'.data])
    /\ pc' = "sum"
    /\ UNCHANGED <<sig, err, impl, call, ret, work>>

\* lines 412-415: sum_coh_fn(...)
SumCoh ==
    /\ pc = "sum"
    /\ out' = [out EXCEPT !.data = sum_coh_fn(impl, call, tmin, out.data)]
    /\ log' = Append(log, [step |-> "sum", out |-> out'.data])
    /\ pc' = "add"
    /\ UNCHANGED <<sig, err, impl, call, tmin, ret, work>>

\* lines 417-418: add_coh_fn(base_vis, out).  A base_vis that numpy cannot
\* broadcast into out makes numba raise; predict_vis never classified it.
AddCoh ==
    /\ pc = "add"
    /\ IF impl.have_coh
          /\ ~CanBroadcast(impl, sig["base_vis"].ndim, call.base_vis, out.data)
       THEN /\ pc' = "failed"
            /\ err' = "broadcast"
            /\ UNCHANGED <<out, log>>
       ELSE /\ out' = [out EXCEPT !.data =
                          add_coh(impl, sig["base_vis"].ndim, call.base_vis, out.data)]
            /\ log' = Append(log, [step |-> "add", out |-> out'.data])
            /\ pc' = "die"
            /\ err' = err
    /\ UNCHANGED <<sig, impl, call, tmin, ret, work>>

\* lines 420-423: apply_dies_fn(...)
ApplyDies ==
    /\ pc = "die"
    /\ out' = [out EXCEPT !.data = apply_dies(impl, call, tmin, out.data)]
    /\ log' = Append(log, [step |-> "die", out |-> out'.data])
    /\ pc' = "return"
    /\ UNCHANGED <<sig, err, impl, call, tmin, ret, work>>

\* line 425: return out
Return ==
    /\ pc = "return"
    /\ ret' = out
    /\ log' = Append(log, [step |-> "return", out |-> out.data])
    /\ pc' = "done"
    /\ UNCHANGED <<sig, err, impl, call, tmin, out, work>>

Next == Validate \/ Call \/ Alloc \/ SumCoh \/ AddCoh \/ ApplyDies \/ Return

Spec == Init /\ [][Next]_vars

---------------------------------------------------------------------------
(* The summation and the DIE step, one kernel invocation at a time *)

\* a mutant of sum_kernel: the kernel accumulates from out[0, 0]
sum_kernel_shared(im, cl, tm, s, r, f, o) ==
    [o EXCEPT ![r][f] = CohTerm(im, cl, tm, s, r, f, o[1][1])]

\* lines 206-209, 217-219, 226: the kernel invocation of sum_coh_fn for source
\* s, row r, channel f; it is handed the view out[r, f]
sum_kernel(im, cl, tm, s, r, f, o) ==
    [o EXCEPT ![r][f] = CohTerm(im, cl, tm, s, r, f, o[r][f])]

\* lines 296-297, 309-311: the kernel invocation of apply_dies for row r,
\* channel c; it is handed the view out[r, c] twice
die_kernel(im, cl, tm, r, c, o) ==
    [o EXCEPT ![r][c] = DieTerm(im, cl, tm, r, c, o[r][c])]

\* some worker makes the next kernel invocation of a (row, chan) iteration
\* of the summation: the sources of one (row, chan) are taken in order
SumKernel ==
    /\ pc = "sum"
    /\ \E cell \in Cells :
          /\ work[cell] < NSources(impl, call)
          /\ out' = [out EXCEPT !.data =
                        sum_kernel(impl, call, tmin, work[cell] + 1,
                                   cell[1], cell[2], out.data)]
          /\ work' = [work EXCEPT ![cell] = @ + 1]
    /\ UNCHANGED <<sig, pc, err, impl, call, tmin, ret, log>>

\* every kernel invocation of the summation has been made
SumJoin ==
    /\ pc = "sum"
    /\ \A cell \in Cells : work[cell] = NSources(impl, call)
    /\ pc' = "add"
    /\ work' = NoWork
    /\ log' = Append(log, [step |-> "sum", out |-> out.data])
    /\ UNCHANGED <<sig, err, impl, call, tmin, out, ret>>

\* some worker makes the kernel invocation of a (row, chan) iteration of
\* apply_dies
DieKernel ==
    /\ pc = "die"
    /\ impl.have_dies
    /\ \E cell \in Cells :
          /\ work[cell] = 0
          /\ out' = [out EXCEPT !.data =
                        die_kernel(impl, call, tmin, cell[1], cell[2], out.data)]
          /\ work' = [work EXCEPT ![cell] = 1]
    /\ UNCHANGED <<sig, pc, err, impl, call, tmin, ret, log>>

\* every kernel invocation of apply_dies has been made (none without DIEs)
DieJoin ==
    /\ pc = "die"
    /\ impl.have_dies => \A cell \in Cells : work[cell] = 1
    /\ pc' = "return"
    /\ work' = NoWork
    /\ log' = Append(log, [step |-> "die", out |-> out.data])
    /\ UNCHANGED <<sig, err, impl, call, tmin, out, ret>>

NextPar ==
    \/ Validate \/ Call \/ Alloc
    \/ SumKernel \/ SumJoin
    \/ AddCoh
    \/ DieKernel \/ DieJoin
    \/ Return

SpecPar == Init /\ [][NextPar]_vars

---------------------------------------------------------------------------
(* One call of a kernel returned by jones_mul_factory *)

\* the values a kernel operand, or the out cell on entry, may hold
KernelOperands(jones_type) ==
    {Cell(jones_type = JONES_2X2, k, seed, 1, 1, 1, 1) :
        k \in 1 .. 2, seed \in Seeds}

\* a kernel with operands has been built by
\* jones_mul_factory(have_ants, have_bl, jones_type, accumulate) and is about
\* to be called on (a1j, blj, a2j, out), blj and out one buffer when `same`
InitKernel ==
    /\ \E ants \in BOOLEAN, bl \in BOOLEAN, jt \in {JONES_1_OR_2, JONES_2X2},
          accumulate \in BOOLEAN, same \in BOOLEAN :
       \E a1j \in KernelOperands(jt), blj \in KernelOperands(jt),
          a2j \in KernelOperands(jt), o \in KernelOperands(jt) :
          /\ ants \/ bl
          /\ same => bl /\ blj = o
          /\ impl = [have_ants |-> ants, have_bl |-> bl, have_dies |-> FALSE,
                     have_coh |-> FALSE, jones_type |-> jt, out_dtype |-> 64,
                     accumulate |-> accumulate, same |-> same]
          /\ call = [a1j |-> a1j, blj |-> blj, a2j |-> a2j, out |-> o]
          /\ out = [alloc |-> TRUE, dtype |-> 64, data |-> o,
                    obj |-> Len(ArgNames) + 1]
    /\ sig = [n \in TensorNames |-> NoneType]
    /\ pc = "kernel"
    /\ err = "none"
    /\ tmin = 0
    /\ ret = NoOut
    /\ log = <<>>
    /\ work = NoWork

\* the call of the kernel
JonesMul ==
    /\ pc = "kernel"
    /\ out' = [out EXCEPT !.data =
                  jones_mul_factory(impl.have_ants, impl.have_bl,
                                    impl.jones_type, impl.accumulate, impl.same,
                                    call.a1j, call.blj, call.a2j, out.data)]
    /\ log' = Append(log, [step |-> "kernel", out |-> out'.data])
    /\ pc' = "kernel_done"
    /\ UNCHANGED <<sig, err, impl, call, tmin, ret, work>>

NextKernel == JonesMul

SpecKernel == InitKernel /\ [][NextKernel]_vars

---------------------------------------------------------------------------
(* The algebra the properties are stated in *)

\* the 2x2 matrix product, and the element-wise product of the (1,)/(2,) layout
Mul(jones_type, x, y) ==
    IF jones_type = JONES_1_OR_2
    THEN [c \in 1 .. Len(x) |-> CMul(x[c], y[c])]
    ELSE [i \in 1 .. 2 |-> [j \in 1 .. 2 |->
             CAdd(CMul(x[i][1], y[1][j]), CMul(x[i][2], y[2][j]))]]

Plus(jones_type, x, y) ==
    IF jones_type = JONES_1_OR_2
    THEN [c \in 1 .. Len(x) |-> CAdd(x[c], y[c])]
    ELSE [i \in 1 .. 2 |-> [j \in 1 .. 2 |-> CAdd(x[i][j], y[i][j])]]

\* the element-wise conjugate, without transposition
Conj(jones_type, x) ==
    IF jones_type = JONES_1_OR_2
    THEN [c \in 1 .. Len(x) |-> CConj(x[c])]
    ELSE [i \in 1 .. 2 |-> [j \in 1 .. 2 |-> CConj(x[i][j])]]

\* the Hermitian conjugate of a 2x2 matrix
Herm(x) == [i \in 1 .. 2 |-> [j \in 1 .. 2 |-> CConj(x[j][i])]]

\* all-ones for the (1,)/(2,) layout, the identity matrix for the (2,2) one
Ident(jones_type) ==
    IF jones_type = JONES_1_OR_2
    THEN [c \in 1 .. NCorr |-> COne]
    ELSE << <<COne, CZero>>, <<CZero, COne>> >>

Zero(jones_type) ==
    IF jones_type = JONES_1_OR_2
    THEN [c \in 1 .. NCorr |-> CZero]
    ELSE << <<CZero, CZero>>, <<CZero, CZero>> >>

\* A1[s,t,a1,c] * X[s,r,c] * conj(A2[s,t,a2,c]) for row r, channel c
\* (1-based) and time slot t (0-based)
RefTerm(im, cl, t, s, r, c) ==
    LET jt == im.jones_type
        A1 == IF im.have_ants
              THEN cl.dde1_jones[s][t + 1][cl.antenna1[r] + 1][c] ELSE Ident(jt)
        X  == IF im.have_bl THEN cl.source_coh[s][r][c] ELSE Ident(jt)
        A2 == IF im.have_ants
              THEN Conj(jt, cl.dde2_jones[s][t + 1][cl.antenna2[r] + 1][c])
              ELSE Ident(jt)
    IN  Mul(jt, Mul(jt, A1, X), A2)

RECURSIVE RefSum(_, _, _, _, _, _)
RefSum(im, cl, t, n, r, c) ==
    IF n = 0 THEN Zero(im.jones_type)
    ELSE Plus(im.jones_type, RefSum(im, cl, t, n - 1, r, c),
              RefTerm(im, cl, t, n, r, c))

\* G1[t,a1,c] * v * conj(G2[t,a2,c])
RefSandwich(im, cl, t, r, c, v) ==
    LET jt == im.jones_type
        G1 == IF im.have_dies
              THEN cl.die1_jones[t + 1][cl.antenna1[r] + 1][c] ELSE Ident(jt)
        G2 == IF im.have_dies
              THEN Conj(jt, cl.die2_jones[t + 1][cl.antenna2[r] + 1][c])
              ELSE Ident(jt)
    IN  Mul(jt, Mul(jt, G1, v), G2)

\* G1 * (sum over all sources of A1 * X * conj(A2) + B) * conj(G2)
RefVis(im, cl, t, r, c) ==
    LET S == RefSum(im, cl, t, NSources(im, cl), r, c)
        V == IF im.have_coh THEN Plus(im.jones_type, S, cl.base_vis[r][c]) ELSE S
    IN  RefSandwich(im, cl, t, r, c, V)

\* the least element of time_index
MinOf(time_index) ==
    CHOOSE m \in {time_index[r] : r \in 1 .. Len(time_index)} :
        \A r \in 1 .. Len(time_index) : m <= time_index[r]

\* base_vis, when present, has the layout of the Jones terms
BaseConforms == ~impl.have_coh \/ sig["base_vis"].ndim = OutNdim(impl)

\* the shape (row, chan) + corr of the Jones layout
HasVisShape(x, jones_type) ==
    /\ Len(x) = NR
    /\ \A r \in 1 .. NR :
         /\ Len(x[r]) = NC
         /\ \A c \in 1 .. NC :
              IF jones_type = JONES_1_OR_2 THEN Len(x[r][c]) = NCorr
              ELSE Len(x[r][c]) = 2 /\ Len(x[r][c][1]) = 2 /\ Len(x[r][c][2]) = 2

---------------------------------------------------------------------------
(* C1 *)

---------------------------------------------------------------------------
(* C2 *)

\* the sum over sources 1 .. n of A1 . X . A2^H, with the Hermitian conjugate
RECURSIVE HermSum(_, _, _, _, _)
HermSum(cl, t, n, r, c) ==
    IF n = 0 THEN Zero(JONES_2X2)
    ELSE Plus(JONES_2X2, HermSum(cl, t, n - 1, r, c),
              Mul(JONES_2X2,
                  Mul(JONES_2X2,
                      cl.dde1_jones[n][t + 1][cl.antenna1[r] + 1][c],
                      cl.source_coh[n][r][c]),
                  Herm(cl.dde2_jones[n][t + 1][cl.antenna2[r] + 1][c])))

\* C2 as stated: in the (2,2) layout the three-term kernel leaves
\* a1 . bl . a2^H, a2^H the Hermitian conjugate (conjugate transpose) of a2:
\* after the summation of a call with the DDE pair and source_coh, out[r,c]
\* is the sum over the sources of A1 . X . A2^H.
C2_HermitianProduct ==
    (pc = "add" /\ impl.have_ants /\ impl.have_bl /\ impl.jones_type = JONES_2X2) =>
        \A r \in 1 .. NR : \A c \in 1 .. NC :
            out.data[r][c] =
                HermSum(call, call.time_index[r] - tmin, NSources(impl, call), r, c)

---------------------------------------------------------------------------
(* C3 *)

JonesNames == TensorNames \ {"base_vis"}

PairingErrors == {"pairing_dde", "pairing_die"}

\* exactly one of dde1_jones/dde2_jones, or of die1_jones/die2_jones, is present
PairingViolated ==
    have_a1(sig) # have_a2(sig) \/ have_g1(sig) # have_g2(sig)

\* C3: whenever exactly one tensor of the DDE pair or of the DIE pair is
\* present, the call fails with the pairing error, whatever the other
\* arguments are, and no output is allocated or returned.
C3_PairingFirst ==
    (pc # "validate" /\ PairingViolated) =>
        /\ pc = "error"
        /\ err \in PairingErrors
        /\ (have_a1(sig) # have_a2(sig) => err = "pairing_dde")
        /\ ~out.alloc
        /\ ~ret.alloc

\* a pairing failure of a call that also has a tensor of inadmissible rank
\* and tensors of both layouts
C3_Witness ==
    /\ pc = "error"
    /\ err \in PairingErrors
    /\ PairingViolated
    /\ \E n \in JonesNames : RankBad(sig, n)
    /\ \E m, n \in JonesNames :
         /\ sig[m].present /\ sig[m].ndim = Corr1Dims(m)
         /\ sig[n].present /\ sig[n].ndim = Corr2Dims(n)

---------------------------------------------------------------------------
(* C4 *)

\* two present tensors among `names`, one (1,)/(2,) and one (2,2)
Clash(names) ==
    \E m, n \in names :
        /\ sig[m].present /\ sig[m].ndim = Corr1Dims(m)
        /\ sig[n].present /\ sig[n].ndim = Corr2Dims(n)

FailsWithMismatch ==
    pc = "error" /\ err = "mismatch" /\ ~out.alloc /\ ~ret.alloc

\* C4 as stated: with pairing satisfied, two present tensors among all six
\* (base_vis included) of different layouts make the call fail with the
\* shape-mismatch error.
C4_Original ==
    (pc # "validate" /\ ~PairingViolated /\ Clash(TensorNames)) =>
        FailsWithMismatch

\* C4, amended: with pairing satisfied and every present tensor among
\* dde1_jones, source_coh, dde2_jones, die1_jones, die2_jones of an admissible
\* rank, two of these five of different layouts make the call fail with the
\* shape-mismatch error and no output; base_vis is not classified.
C4_MismatchAmongJones ==
    (/\ pc # "validate"
     /\ ~PairingViolated
     /\ \A n \in JonesNames : ~RankBad(sig, n)
     /\ Clash(JonesNames)) =>
        FailsWithMismatch

\* a mismatch failure between source_coh and the DIE pair, base_vis present
C4_Witness ==
    /\ FailsWithMismatch
    /\ have_coh(sig) /\ have_bl(sig) /\ have_dies(sig) /\ ~have_ants(sig)
    /\ sig["source_coh"].ndim = 4
    /\ sig["die1_jones"].ndim = 5

---------------------------------------------------------------------------
(* C5 *)

\* C5 as stated: whenever dde1_jones, source_coh, dde2_jones, die1_jones and
\* die2_jones are all absent, the call fails with the no-Jones-terms error,
\* with base_vis absent as with base_vis present.
C5_NoJonesTerms ==
    (pc # "validate" /\ \A n \in JonesNames : ~sig[n].present) =>
        pc = "error" /\ err = "noterms"

---------------------------------------------------------------------------
(* C6 *)

\* the errors predict_vis raises while it validates
ValidationErrors ==
    {"pairing_dde", "pairing_die", "dtype", "rank", "mismatch", "noterms",
     "insufficient", "invalid_type"}

\* C6: every validation error is raised before the output buffer is
\* allocated and before any step runs: a call that ended in one has no
\* buffer, returned nothing and ran no step, and once the buffer exists the
\* call carries, and can no longer end in, none of these errors.
C6_FailFast ==
    /\ pc = "error" =>
          err \in ValidationErrors /\ ~out.alloc /\ ~ret.alloc /\ log = <<>>
    /\ err \in ValidationErrors => pc = "error"
    /\ out.alloc => err \notin ValidationErrors /\ pc # "error"

\* a call that failed validation on its ranks
C6_Witness ==
    pc = "error" /\ err = "rank" /\ ~out.alloc /\ ~PairingViolated

---------------------------------------------------------------------------
(* C7 *)

\* the channels of the tensor the shape is taken from
ShapeSource ==
    IF have_ants(sig) THEN call.dde1_jones[1][1][1]
    ELSE IF have_bl(sig) THEN call.source_coh[1][1]
    ELSE call.die1_jones[1][1]

\* x is all zeros and has the correlation shape of `like`
ZeroLike(jones_type, x, like) ==
    IF jones_type = JONES_1_OR_2
    THEN Len(x) = Len(like) /\ \A i \in 1 .. Len(x) : x[i] = CZero
    ELSE /\ Len(x) = Len(like)
         /\ \A i \in 1 .. Len(x) :
              /\ Len(x[i]) = Len(like[i])
              /\ \A j \in 1 .. Len(x[i]) : x[i][j] = CZero

\* C7: the buffer just allocated is all zeros and has shape
\* (len(time_index), chan) + corr with chan and corr those of dde1_jones when
\* the DDE pair is present, else of source_coh when present, else of
\* die1_jones; shape and element type are fixed by the shapes and element
\* types of the arguments (the element type is the widest among the present
\* tensors).
C7_Allocation ==
    pc = "sum" =>
        /\ out.alloc
        /\ Len(out.data) = Len(call.time_index)
        /\ \A r \in 1 .. Len(out.data) :
             /\ Len(out.data[r]) = Len(ShapeSource)
             /\ \A c \in 1 .. Len(out.data[r]) :
                  ZeroLike(impl.jones_type, out.data[r][c], ShapeSource[c])
        /\ out.dtype \in DTypes
        /\ out.dtype = 128 <=> \E n \in TensorNames : sig[n].dtype = 128

\* a complex128 buffer shaped after die1_jones, base_vis being the one
\* complex128 argument
C7_Witness ==
    /\ pc = "sum"
    /\ ~have_ants(sig) /\ ~have_bl(sig) /\ have_dies(sig)
    /\ sig["base_vis"].dtype = 128
    /\ out.dtype = 128
    /\ Len(out.data) = NR

---------------------------------------------------------------------------
(* C8 *)

\* the splits of the source axis 1 .. n into consecutive chunks: f[s] is the
\* chunk of source s
Splits(n) ==
    {f \in [1 .. n -> 1 .. n] :
        f[1] = 1 /\ \A s \in 2 .. n : f[s] \in {f[s - 1], f[s - 1] + 1}}

\* the sources of chunk k, in order
ChunkOf(f, k) == SelectSeq([s \in 1 .. Len(f) |-> s], LAMBDA s : f[s] = k)

Pick(x, idx) == [i \in 1 .. Len(idx) |-> x[idx[i]]]

\* the call with the source-carrying tensors sliced to the sources idx
SliceSources(im, cl, idx) ==
    [cl EXCEPT !.dde1_jones = IF im.have_ants THEN Pick(@, idx) ELSE @,
               !.source_coh = IF im.have_bl THEN Pick(@, idx) ELSE @,
               !.dde2_jones = IF im.have_ants THEN Pick(@, idx) ELSE @]

\* the result of predict_vis on one chunk, with or without base_vis
ChunkVis(im, bnd, cl, idx, withBase) ==
    predict_vis_fn([im EXCEPT !.have_coh = im.have_coh /\ withBase], bnd,
                   SliceSources(im, cl, idx))

AddVis(jones_type, a, b) ==
    [r \in 1 .. Len(a) |-> [c \in 1 .. Len(a[r]) |->
        Plus(jones_type, a[r][c], b[r][c])]]

\* the element-wise sum of the results over the non-empty chunks 1 .. k of
\* the split f; the chunks in `holders` are given base_vis
RECURSIVE SumChunks(_, _, _, _, _, _)
SumChunks(im, bnd, cl, f, k, holders) ==
    IF k = 0
    THEN [r \in 1 .. Len(cl.time_index) |->
             [c \in 1 .. NC |-> Zero(im.jones_type)]]
    ELSE LET rest == SumChunks(im, bnd, cl, f, k - 1, holders)
             idx == ChunkOf(f, k)
         IN  IF idx = <<>> THEN rest
             ELSE AddVis(im.jones_type, rest,
                         ChunkVis(im, bnd, cl, idx, k \in holders))

ChunksOf(f) == {f[s] : s \in 1 .. Len(f)}

---------------------------------------------------------------------------
(* C9 *)

StepOrder == <<"alloc", "sum", "add", "die", "return">>

\* the buffer as the step `name` left it
After(name) ==
    log[CHOOSE i \in 1 .. Len(log) : log[i].step = name].out

SlotOf(r) == call.time_index[r] - MinOf(call.time_index)

\* C9: the steps of a call run in the order allocate, sum, add base_vis,
\* apply DIEs, return, each once; in a call that returned, the buffer was
\* allocated zeroed, base_vis was added to the completed source sum, the DIE
\* sandwich was applied once to (source sum + base_vis), and what is returned
\* is the buffer as the DIE step left it.
C9_StepOrder ==
    /\ Len(log) <= Len(StepOrder)
    /\ \A i \in 1 .. Len(log) : log[i].step = StepOrder[i]
    /\ pc = "done" => Len(log) = Len(StepOrder)
    /\ (pc = "done" /\ BaseConforms) =>
         \A r \in 1 .. NR : \A c \in 1 .. NC :
           /\ After("alloc")[r][c] = Zero(impl.jones_type)
           /\ After("sum")[r][c] =
                 RefSum(impl, call, SlotOf(r), NSources(impl, call), r, c)
           /\ After("add")[r][c] =
                 IF impl.have_coh
                 THEN Plus(impl.jones_type, After("sum")[r][c],
                           call.base_vis[r][c])
                 ELSE After("sum")[r][c]
           /\ After("die")[r][c] =
                 IF impl.have_dies
                 THEN RefSandwich(impl, call, SlotOf(r), r, c,
                                  After("add")[r][c])
                 ELSE After("add")[r][c]
           /\ After("return")[r][c] = After("die")[r][c]
           /\ ret.data[r][c] = After("die")[r][c]

\* a returned call with sources, base_vis and DIEs in which each of the
\* three computing steps changed the buffer
C9_Witness ==
    /\ pc = "done"
    /\ impl.have_bl /\ impl.have_coh /\ impl.have_dies
    /\ BaseConforms
    /\ After("sum") # After("alloc")
    /\ After("add") # After("sum")
    /\ After("die") # After("add")
    /\ ret.data = After("die")

---------------------------------------------------------------------------
(* C10 *)

\* the call with the constant k added to every element of time_index
Shifted(cl, k) ==
    [cl EXCEPT !.time_index = [r \in 1 .. Len(@) |-> @[r] + k]]

Started == pc \in {"sum", "add", "die", "return", "done", "failed"}

\* C10: the time slot of dde1_jones/dde2_jones (in the summation) and of
\* die1_jones/die2_jones (in the DIE step) used for row r is
\* time_index[r] - min(time_index), the minimum over all the rows of the
\* call, and adding one integer constant to every element of time_index
\* leaves the result unchanged.
C10_TimeRebase ==
    /\ Started => tmin = MinOf(call.time_index)
    /\ (pc = "add" /\ impl.have_ants) =>
         \A r \in 1 .. NR : \A c \in 1 .. NC :
            out.data[r][c] =
                RefSum(impl, call, call.time_index[r] - MinOf(call.time_index),
                       NSources(impl, call), r, c)
    /\ (pc = "return" /\ impl.have_dies) =>
         \A r \in 1 .. NR : \A c \in 1 .. NC :
            out.data[r][c] =
                RefSandwich(impl, call,
                            call.time_index[r] - MinOf(call.time_index), r, c,
                            After("add")[r][c])
    /\ pc = "done" =>
         \A k \in (0 - MaxShift) .. MaxShift :
            predict_vis_fn(impl, sig["base_vis"].ndim, Shifted(call, k)) = ret.data

\* a returned non-zero result of a call with the DDE and the DIE pairs whose
\* time_index does not start at zero and spans two slots of the shifted call
C10_Witness ==
    /\ pc = "done"
    /\ impl.have_ants /\ impl.have_dies
    /\ MinOf(call.time_index) > 0
    /\ tmin = MinOf(call.time_index)
    /\ \E r \in 1 .. NR : ret.data[r][1] # Zero(impl.jones_type)
    /\ \E k \in 1 .. MaxShift :
          predict_vis_fn(impl, sig["base_vis"].ndim, Shifted(call, 0 - k)) = ret.data

---------------------------------------------------------------------------
(* C11 *)

\* C11: with the kernel invocations of the (row, chan) iterations of the
\* summation and of the DIE step made in any interleaving, the sources of one
\* (row, chan) in order, out[r,c] is at every moment determined by the
\* invocations made for (r, c) alone, and each step ends, and the call
\* returns, with the output of the sequential loops.
C11_Interleaving ==
    /\ pc = "sum" =>
         \A cell \in Cells :
            out.data[cell[1]][cell[2]] =
                SumSources(impl, call, tmin, 1, work[cell], cell[1], cell[2],
                           After("alloc")[cell[1]][cell[2]])
    /\ pc = "add" =>
         out.data = sum_coh_fn(impl, call, tmin, After("alloc"))
    /\ (pc = "die" /\ impl.have_dies) =>
         \A cell \in Cells :
            out.data[cell[1]][cell[2]] =
                IF work[cell] = 1
                THEN DieTerm(impl, call, tmin, cell[1], cell[2],
                             After("add")[cell[1]][cell[2]])
                ELSE After("add")[cell[1]][cell[2]]
    /\ pc = "return" =>
         out.data = apply_dies(impl, call, tmin, After("add"))
    /\ pc = "done" =>
         ret.data = predict_vis_fn(impl, sig["base_vis"].ndim, call)

\* the summation of a call with the DDE pair in an order the sequential loop
\* does not take: the last row has had all its sources, the first row none
C11_Witness ==
    /\ pc = "sum"
    /\ impl.have_ants
    /\ work[<<1, 1>>] = 0
    /\ work[<<NR, 1>>] = NSources(impl, call)
    /\ out.data[NR][1] # Zero(impl.jones_type)

---------------------------------------------------------------------------
(* C12 *)

\* what the array object i holds: the output buffer's content when the
\* buffer is that object, else the value of argument i
Content(i) ==
    IF out.alloc /\ out.obj = i THEN out.data ELSE call[ArgNames[i]]

\* C12: the output buffer is an object allocated in the call, none of the
\* arrays passed in, and it is the object returned; from the moment the
\* values are passed, no step of a call, successful or failing, changes what
\* an input array holds, nor the signature.
C12_Frame ==
    /\ [](out.alloc => out.obj \in Objects \ InputObjects(sig))
    /\ [](ret.alloc => ret.obj = out.obj)
    /\ [][ /\ sig' = sig
           /\ pc \notin {"validate", "call"} =>
                 \A i \in InputObjects(sig) : Content(i)' = Content(i)
        ]_vars

\* a returned non-zero result of a call with source_coh alone, in a buffer
\* that is not the source_coh array
C12_Witness ==
    /\ pc = "done"
    /\ impl.have_bl /\ ~impl.have_ants /\ ~impl.have_dies /\ ~impl.have_coh
    /\ ret.alloc
    /\ ret.obj \notin InputObjects(sig)
    /\ ret.data # After("alloc")
    /\ call.source_coh = MkCall(sig, 0, call.time_index, call.antenna1,
                                call.antenna2).source_coh

---------------------------------------------------------------------------
(* C13 *)

\* the product of the operands of the kernel called: a1 * bl * conj(a2),
\* a1 * conj(a2) or bl
KernelProduct ==
    LET jt == impl.jones_type
    IN  IF impl.have_ants /\ impl.have_bl
        THEN Mul(jt, Mul(jt, call.a1j, call.blj), Conj(jt, call.a2j))
        ELSE IF impl.have_ants
        THEN Mul(jt, call.a1j, Conj(jt, call.a2j))
        ELSE call.blj

KernelExpected ==
    IF impl.accumulate
    THEN Plus(impl.jones_type, call.out, KernelProduct)
    ELSE KernelProduct

\* C13 as stated: for the three-term, the two-term and the baseline-only
\* kernel and both layouts, a kernel built with accumulate=True leaves out
\* equal to its previous content plus the product, and one built with
\* accumulate=False leaves out equal to the product alone.
C13_AccumulateOrAssign ==
    pc = "kernel_done" => out.data = KernelExpected

\* the same of every kernel but the two-term one of the (2,2) layout built
\* with accumulate=False
C13_ButTwoTermMatrixAssign ==
    (/\ pc = "kernel_done"
     /\ ~(/\ impl.have_ants /\ ~impl.have_bl
          /\ impl.jones_type = JONES_2X2 /\ ~impl.accumulate)) =>
        out.data = KernelExpected

---------------------------------------------------------------------------
(* C14 *)

\* C14: in the DIE step the kernel is given out[r,c] as its middle operand
\* and as its destination, and for both layouts what it stores in out[r,c]
\* is die1[t,a1,c] * v * conj(die2[t,a2,c]), v the value out[r,c] held when
\* the kernel was called (the value the base_vis step left).
C14_DieInPlace ==
    (pc = "return" /\ impl.have_dies) =>
        \A r \in 1 .. NR : \A c \in 1 .. NC :
            LET jt == impl.jones_type
                t  == SlotOf(r)
                v  == After("add")[r][c]
                g1 == call.die1_jones[t + 1][call.antenna1[r] + 1][c]
                g2 == call.die2_jones[t + 1][call.antenna2[r] + 1][c]
            IN  /\ After("die")[r][c] = out.data[r][c]
                /\ out.data[r][c] = Mul(jt, Mul(jt, g1, v), Conj(jt, g2))

\* the DIE step of a (2,2) call has just rewritten a cell all of whose four
\* elements it changed, from a value with non-zero off-diagonal elements
C14_Witness ==
    /\ pc = "return"
    /\ impl.have_dies /\ impl.have_bl
    /\ impl.jones_type = JONES_2X2
    /\ \E r \in 1 .. NR :
         /\ After("add")[r][1][1][2] # CZero
         /\ After("add")[r][1][2][1] # CZero
         /\ \A i \in 1 .. 2 : \A j \in 1 .. 2 :
               out.data[r][1][i][j] # After("add")[r][1][i][j]

---------------------------------------------------------------------------
(* C15 *)

\* none of the DDE pair, source_coh and the DIE pair is present
NothingToShape == ~have_ants(sig) /\ ~have_bl(sig) /\ ~have_dies(sig)

\* C15 as stated: no call ends in the allocator's insufficient-inputs error,
\* and every call in which none of the DDE pair, source_coh and the DIE pair
\* is present has failed with the pairing or the no-Jones-terms error before
\* output_factory is reached.
C15_FailsBeforeAllocator ==
    /\ err # "insufficient"
    /\ (pc # "validate" /\ NothingToShape) =>
          /\ pc = "error"
          /\ err \in PairingErrors \cup {"noterms"}
          /\ ~out.alloc

\* the same, whatever the error the call failed with
C15_NeverInsufficient ==
    /\ err # "insufficient"
    /\ (pc # "validate" /\ NothingToShape) =>
          pc = "error" /\ err \in ValidationErrors /\ ~out.alloc

---------------------------------------------------------------------------
(* C16 *)

\* the DIE pair alone, in either layout
DieOnly ==
    /\ have_g1(sig) /\ have_g2(sig)
    /\ ~have_a1(sig) /\ ~have_a2(sig) /\ ~have_bl(sig) /\ ~have_coh(sig)
    /\ sig["die1_jones"].ndim = sig["die2_jones"].ndim
    /\ ~RankBad(sig, "die1_jones")

\* C16: a call with the DIE pair alone succeeds; its summation leaves the
\* zeroed buffer as it is, and it returns an array of shape
\* (len(time_index), chan) + corr, chan and corr those of die1_jones, with
\* every element zero.
C16_DieOnlyZero ==
    DieOnly =>
        /\ pc \notin {"error", "failed"}
        /\ err = "none"
        /\ pc \in {"add", "die", "return", "done"} =>
              After("sum") = After("alloc")
        /\ pc = "done" =>
              /\ ret.alloc
              /\ Len(ret.data) = Len(call.time_index)
              /\ \A r \in 1 .. Len(ret.data) :
                   /\ Len(ret.data[r]) = Len(call.die1_jones[1][1])
                   /\ \A c \in 1 .. Len(ret.data[r]) :
                        ZeroLike(impl.jones_type, ret.data[r][c],
                                 call.die1_jones[1][1][c])

\* a returned result of a (2,2) call with the DIE pair alone whose DIE terms
\* are not zero
C16_Witness ==
    /\ pc = "done"
    /\ DieOnly
    /\ impl.jones_type = JONES_2X2
    /\ ret.data = After("alloc")
    /\ \E r \in 1 .. NR :
         LET g1 == call.die1_jones[SlotOf(r) + 1][call.antenna1[r] + 1][1]
             g2 == call.die2_jones[SlotOf(r) + 1][call.antenna2[r] + 1][1]
         IN  Mul(JONES_2X2, g1, Conj(JONES_2X2, g2)) # Zero(JONES_2X2)

===========================================================================
